---- MODULE Spec2Model ----
(***************************************************************************)
(* Retrieval engine of the RAG civic analysis system.                      *)
(*                                                                         *)
(*   src/app.py   per-user document store: upload (ingest), ask (query),   *)
(*                summary, get, delete, over the global user_documents     *)
(*                table, with the sentence chunker chunk_text.             *)
(*   src/main.py  shared-corpus ensemble search with 0.7/0.3 score fusion. *)
(*                                                                         *)
(* A text is a sequence of whitespace-separated tokens; a sentence is the  *)
(* sequence of its tokens, so len(sentence.split()) is its length and      *)
(* " ".join(sentences) is the concatenation of the sentences' tokens.      *)
(***************************************************************************)
EXTENDS Integers, Sequences, FiniteSets, TLC

VARIABLES
    ck,              \* chunk_text's locals while it runs (src/app.py:86-109)
    embedding_model, \* app.py global: the loaded encoder, text -> vector
    user_documents,  \* app.py global: user_id -> {index, metadata} or NoSession
    uploads,         \* the files of UPLOAD_FOLDER: path -> file content
    thr,             \* per request thread: the handler it runs and its locals
    nreq,            \* number of requests accepted so far
    ens              \* main.py: corpus index, df_chunks and the running search

vars == <<ck, embedding_model, user_documents, uploads, thr, nreq, ens>>

appVars == <<embedding_model, user_documents, uploads, thr, nreq>>

Min(a, b) == IF a <= b THEN a ELSE b

Range(s) == {s[i] : i \in DOMAIN s}

(***************************************************************************)
(* Text segmentation: chunk_text (src/app.py:86-109)                       *)
(***************************************************************************)

\* Tokens that carry sentence-final punctuation.
SentenceEnders == {"end.", "first.", "second.", "third."}

\* nltk's sent_tokenize on a token sequence: a sentence ends after every
\* token with final punctuation; trailing tokens form a last sentence.
SentTokenize(text) ==
    LET ends == {i \in 1..Len(text) : text[i] \in SentenceEnders \/ i = Len(text)}
        EndOf(k) == CHOOSE i \in ends : Cardinality({j \in ends : j <= i}) = k
        StartOf(k) == IF k = 1 THEN 1 ELSE EndOf(k - 1) + 1
    IN [k \in 1..Cardinality(ends) |-> SubSeq(text, StartOf(k), EndOf(k))]

\* len(sentence.split())
TokenCount(sentence) == Len(sentence)

\* sum(len(s.split()) for s in current_chunk)
RECURSIVE SumTokenCounts(_)
SumTokenCounts(ss) ==
    IF ss = <<>> THEN 0 ELSE TokenCount(Head(ss)) + SumTokenCounts(Tail(ss))

\* " ".join(current_chunk)
RECURSIVE JoinSentences(_)
JoinSentences(ss) ==
    IF ss = <<>> THEN <<>> ELSE Head(ss) \o JoinSentences(Tail(ss))

\* Python's s[-n:] for n >= 1
LastN(s, n) == IF n >= Len(s) THEN s ELSE SubSeq(s, Len(s) - n + 1, Len(s))

\* A faulty Overlap: seeds the next chunk with the first sentences.
OverlapFromFront(current_chunk, overlap_sentences) ==
    SubSeq(current_chunk, 1, Min(overlap_sentences, Len(current_chunk)))

\* current_chunk[-overlap_sentences:] if overlap_sentences else []
Overlap(current_chunk, overlap_sentences) ==
    IF overlap_sentences = 0 THEN <<>> ELSE LastN(current_chunk, overlap_sentences)

\* The locals of chunk_text before the loop.  cur_pos and closed record, for
\* every sentence held in current_chunk and in each appended chunk, its
\* position in the sentence list.
ChunkLocals0 ==
    [chunks |-> <<>>, current_chunk |-> <<>>, current_length |-> 0,
     cur_pos |-> <<>>, closed |-> <<>>]

\* if current_chunk: chunks.append(" ".join(current_chunk))
CloseChunk(L) ==
    IF L.current_chunk # <<>>
    THEN [L EXCEPT !.chunks = Append(@, JoinSentences(L.current_chunk)),
                   !.closed = Append(@, L.cur_pos)]
    ELSE L

\* One iteration of "for sentence in sentences" (src/app.py:93-104).
LoopBody(L, sentence, pos, max_tokens, overlap_sentences) ==
    IF L.current_length + TokenCount(sentence) <= max_tokens
    THEN [L EXCEPT !.current_chunk = Append(@, sentence),
                   !.current_length = @ + TokenCount(sentence),
                   !.cur_pos = Append(@, pos)]
    ELSE LET C == CloseChunk(L)
             overlap == Overlap(L.current_chunk, overlap_sentences)
         IN [C EXCEPT !.current_chunk = overlap \o <<sentence>>,
                      !.current_length = SumTokenCounts(overlap \o <<sentence>>),
                      !.cur_pos = Overlap(L.cur_pos, overlap_sentences) \o <<pos>>]

\* A faulty FinalFlush: the last chunk is not appended.
FinalFlushSkipped(L) == L

\* The trailing "if current_chunk: chunks.append(...)" (src/app.py:106-107).
FinalFlush(L) == CloseChunk(L)

\* The locals of chunk_text after the loop and the trailing append.
ChunkRun(sentences, max_tokens, overlap_sentences) ==
    LET RECURSIVE Go(_, _)
        Go(i, L) ==
            IF i > Len(sentences) THEN FinalFlush(L)
            ELSE Go(i + 1, LoopBody(L, sentences[i], i, max_tokens, overlap_sentences))
    IN Go(1, ChunkLocals0)

\* chunk_text(text, max_tokens, overlap_sentences)
chunk_text(text, max_tokens, overlap_sentences) ==
    ChunkRun(SentTokenize(text), max_tokens, overlap_sentences).chunks

max_tokens_default == 300

overlap_sentences_default == 2

(***************************************************************************)
(* chunk_text run statement by statement on bounded inputs.                *)
(***************************************************************************)

MaxTextLen == 5

MaxTokensBound == 3

MaxOverlap == 2

ChunkWords == {"w", "end."}

ChunkTexts == UNION {[1..n -> ChunkWords] : n \in 0..MaxTextLen}

ckOff == [pc |-> "off"]

ChunkInit ==
    \E text \in ChunkTexts, mt \in 0..MaxTokensBound, ov \in 0..MaxOverlap :
        ck = [pc |-> "loop", sentences |-> SentTokenize(text),
              max_tokens |-> mt, overlap_sentences |-> ov, i |-> 1,
              L |-> ChunkLocals0]

\* One pass of the loop body for sentence number ck.i.
ChunkLoop ==
    /\ ck.pc = "loop"
    /\ ck.i <= Len(ck.sentences)
    /\ ck' = [ck EXCEPT !.L = LoopBody(ck.L, ck.sentences[ck.i], ck.i,
                                        ck.max_tokens, ck.overlap_sentences),
                        !.i = @ + 1]

\* The loop is exhausted: trailing append and return.
ChunkReturn ==
    /\ ck.pc = "loop"
    /\ ck.i > Len(ck.sentences)
    /\ ck' = [ck EXCEPT !.L = FinalFlush(ck.L), !.pc = "done"]

(***************************************************************************)
(* The document store of src/app.py.                                       *)
(***************************************************************************)

Threads == {"t1", "t2"}

ThreadOrder == [t \in Threads |-> IF t = "t1" THEN 1 ELSE 2]

MaxRequests == 3

\* Session ids as character sequences; the first is a prefix of the second.
UserIds == {<<"u">>, <<"u", "1">>}

NoUserId == <<>>

NoSession == [absent |-> TRUE]

\* Unit vectors (normalize_embeddings=True).
Vec == {<<1, 0>>, <<0, 1>>}

\* index.search's inner product
InnerProduct(a, b) == a[1] * b[1] + a[2] * b[2]

LongLen == 151

LongSentence == [i \in 1..LongLen |-> IF i = LongLen THEN "end." ELSE "w"]

\* The files a client uploads: a name (stem, extension) and the content, a
\* sequence of pages (PDF) or paragraphs (DOCX), each a token sequence.
FileAlpha ==
    [filename |-> <<"a", ".pdf">>,
     content |-> << <<"Alpha", "is", "first.", "\n">>,
                    <<"Beta", "is", "second.", "Gamma", "is", "third.">> >>]

FileLong ==
    [filename |-> <<"b", ".docx">>,
     content |-> << LongSentence, <<"\n">>, LongSentence >>]

FileBlank == [filename |-> <<"e", ".pdf">>, content |-> << <<"\n">> >>]

FileText == [filename |-> <<"c", ".txt">>, content |-> << <<"Alpha", "is", "first.">> >>]

UploadFiles == {FileAlpha, FileLong, FileBlank, FileText}

\* request.files without 'file', and a file part with an empty filename
NoFile == [filename |-> <<"?">>, content |-> <<>>, missing |-> TRUE]

EmptyNameFile == [filename |-> <<>>, content |-> <<>>]

Question == <<"what", "is", "first?">>

NoQuestion == <<>>

Whitespace == {"\n"}

\* extract_text_from_pdf: the pages' texts concatenated
RECURSIVE extract_text_from_pdf(_)
extract_text_from_pdf(content) ==
    IF content = <<>> THEN <<>>
    ELSE Head(content) \o extract_text_from_pdf(Tail(content))

IsBlank(para) == \A i \in DOMAIN para : para[i] \in Whitespace

\* extract_text_from_docx: "\n".join of the paragraphs with para.text.strip()
RECURSIVE extract_text_from_docx(_)
extract_text_from_docx(content) ==
    IF content = <<>> THEN <<>>
    ELSE LET rest == extract_text_from_docx(Tail(content))
         IN IF IsBlank(Head(content)) THEN rest
            ELSE IF rest = <<>> THEN Head(content)
            ELSE Head(content) \o <<"\n">> \o rest

\* clean_text: whitespace runs collapse to the single separators between
\* tokens, the ends are stripped.
clean_text(text) == SelectSeq(text, LAMBDA tok : tok \notin Whitespace)

\* filename.endswith(ext)
EndsWith(filename, ext) == filename # <<>> /\ filename[Len(filename)] = ext

\* s.startswith(prefix)
StartsWith(s, prefix) ==
    Len(prefix) <= Len(s) /\ SubSeq(s, 1, Len(prefix)) = prefix

\* os.path.join(UPLOAD_FOLDER, f"{user_id}_{filename}"), relative to the folder
UploadPath(user_id, filename) == user_id \o <<"_">> \o filename

\* extract_text_from_pdf or extract_text_from_docx, by the file's extension
ExtractText(filename, content) ==
    IF filename[Len(filename)] = ".pdf"
    THEN extract_text_from_pdf(content)
    ELSE extract_text_from_docx(content)

\* Every text the encoder is asked to embed: the question and the chunks of
\* the uploaded files that reach the encoder.
EmbedTexts ==
    {Question} \cup
    UNION {Range(chunk_text(clean_text(ExtractText(f.filename, f.content)),
                            max_tokens_default, overlap_sentences_default))
           : f \in {g \in UploadFiles : g.filename[Len(g.filename)] \in {".pdf", ".docx"}}}

\* embedding_model.encode(chunks): one vector per chunk, in order
Encode(model, chunks) == [i \in 1..Len(chunks) |-> model[chunks[i]]]

\* A faulty BuildMetadata: total_chunks counts the sentences of the text.
BuildMetadataCountsSentences(filename, chunks) ==
    [filename |-> filename, chunks |-> chunks,
     total_chunks |-> Len(SentTokenize(JoinSentences(chunks)))]

\* metadata = {...} (src/app.py:163-168); upload_date, a clock reading, is left out
BuildMetadata(filename, chunks) ==
    [filename |-> filename, chunks |-> chunks, total_chunks |-> Len(chunks)]

\* A faulty StoreSession: a re-ingest extends the session it finds.
StoreSessionMerges(docs, user_id, index, metadata) ==
    IF docs[user_id] = NoSession
    THEN [docs EXCEPT ![user_id] = [index |-> index, metadata |-> metadata]]
    ELSE [docs EXCEPT ![user_id] =
            [index |-> docs[user_id].index \o index,
             metadata |-> [metadata EXCEPT
                 !.chunks = docs[user_id].metadata.chunks \o metadata.chunks,
                 !.total_chunks = docs[user_id].metadata.total_chunks + @]]]

\* user_documents[user_id] = {'index': index, 'metadata': metadata}
StoreSession(docs, user_id, index, metadata) ==
    [docs EXCEPT ![user_id] = [index |-> index, metadata |-> metadata]]

Raised(docs, error) ==
    [raised |-> TRUE, error |-> error, user_documents |-> docs]

\* A faulty create_user_index: the session is stored before the empty check.
create_user_index_stores_first(docs, files, model, user_id, file_path, filename) ==
    IF ~(EndsWith(filename, ".pdf") \/ EndsWith(filename, ".docx"))
    THEN Raised(docs, "Unsupported file format")
    ELSE IF file_path \notin DOMAIN files
    THEN Raised(docs, "No such file")
    ELSE LET text == IF EndsWith(filename, ".pdf")
                     THEN extract_text_from_pdf(files[file_path])
                     ELSE extract_text_from_docx(files[file_path])
             chunks == chunk_text(clean_text(text), max_tokens_default,
                                  overlap_sentences_default)
             metadata == BuildMetadata(filename, chunks)
             stored == StoreSession(docs, user_id, Encode(model, chunks), metadata)
         IN IF chunks = <<>>
            THEN Raised(stored, "No text extracted from document")
            ELSE [raised |-> FALSE, metadata |-> metadata, user_documents |-> stored]

\* create_user_index (src/app.py:111-181) on the table docs and the upload
\* folder files: the exception it raises, or the metadata it returns and the
\* table it leaves.
create_user_index(docs, files, model, user_id, file_path, filename) ==
    IF ~(EndsWith(filename, ".pdf") \/ EndsWith(filename, ".docx"))
    THEN Raised(docs, "Unsupported file format")
    ELSE IF file_path \notin DOMAIN files
    THEN Raised(docs, "No such file")
    ELSE LET text == IF EndsWith(filename, ".pdf")
                     THEN extract_text_from_pdf(files[file_path])
                     ELSE extract_text_from_docx(files[file_path])
             chunks == chunk_text(clean_text(text), max_tokens_default,
                                  overlap_sentences_default)
             metadata == BuildMetadata(filename, chunks)
         IN IF chunks = <<>>
            THEN Raised(docs, "No text extracted from document")
            ELSE [raised |-> FALSE, metadata |-> metadata,
                  user_documents |->
                      StoreSession(docs, user_id, Encode(model, chunks), metadata)]

(***************************************************************************)
(* index.search and semantic_search (src/app.py:183-209)                   *)
(***************************************************************************)

AskK == 5

\* Score faiss reports for the entries it pads when k exceeds the index size.
PadScore == -1000

Orderings(n) == {p \in [1..n -> 1..n] : \A i, j \in 1..n : i # j => p[i] # p[j]}

\* faiss IndexFlatIP.search(query_embedding, k): the k best positions by inner
\* product, best first, padded with position -1 when the index holds fewer
\* than k vectors; equal scores come in either order.
FaissSearch(index, q, k) ==
    LET n == Len(index)
        score == [i \in 1..n |-> InnerProduct(index[i], q)]
        ranked == {p \in Orderings(n) :
                      \A i \in 1..n : \A j \in 1..n : i < j => score[p[i]] >= score[p[j]]}
    IN {[j \in 1..k |-> IF j <= n THEN [score |-> score[p[j]], idx |-> p[j] - 1]
                                   ELSE [score |-> PadScore, idx |-> -1]]
        : p \in ranked}

\* Python's chunks[idx] for an idx in -len..len-1
PyIndex(chunks, idx) ==
    IF idx >= 0 THEN chunks[idx + 1] ELSE chunks[Len(chunks) + idx + 1]

\* The loop over zip(distances[0], indices[0]) (src/app.py:200-207).
CollectResults(chunks, row) ==
    LET kept == SelectSeq(row, LAMBDA e : e.idx < Len(chunks))
    IN [j \in 1..Len(kept) |->
           [chunk_text |-> PyIndex(chunks, kept[j].idx),
            score |-> kept[j].score,
            chunk_index |-> kept[j].idx]]

\* The result lists semantic_search(user_id, query, k) can return from the
\* session doc_data it has looked up (src/app.py:188-209).
SemanticSearchResults(model, doc_data, query, k) ==
    {CollectResults(doc_data.metadata.chunks, row)
        : row \in FaissSearch(doc_data.index, model[query], k)}

(***************************************************************************)
(* Request handlers.  Each thread of the threaded server runs one handler  *)
(* at a time; a handler is cut where it reads or writes user_documents or  *)
(* the upload folder.                                                      *)
(***************************************************************************)

Idle ==
    [op |-> "none", pc |-> "idle", user_id |-> NoUserId, arg |-> <<>>,
     status |-> 0, body |-> "none", payload |-> <<>>]

Busy(t) == thr[t].pc \notin {"idle", "done"}

\* The server hands a new request to the first thread that runs none.
Free(t) ==
    /\ ~Busy(t)
    /\ nreq < MaxRequests
    /\ \A o \in Threads : ThreadOrder[o] < ThreadOrder[t] => Busy(o)

Start(op, pc, user_id, arg) ==
    [Idle EXCEPT !.op = op, !.pc = pc, !.user_id = user_id, !.arg = arg]

Respond(r, status, body, payload) ==
    [r EXCEPT !.pc = "done", !.status = status, !.body = body, !.payload = payload]

Present(docs, user_id) == user_id \in DOMAIN docs /\ docs[user_id] # NoSession

\* POST /upload up to file.save (src/app.py:251-269)
UploadSave(t) ==
    /\ Free(t)
    /\ nreq' = nreq + 1
    /\ \E file \in UploadFiles \cup {NoFile, EmptyNameFile} :
         IF "missing" \in DOMAIN file
         THEN /\ thr' = [thr EXCEPT ![t] =
                    Respond(Start("upload", "done", NoUserId, <<>>), 400,
                            "No file provided", <<>>)]
              /\ UNCHANGED uploads
         ELSE IF file.filename = <<>>
         THEN /\ thr' = [thr EXCEPT ![t] =
                    Respond(Start("upload", "done", NoUserId, <<>>), 400,
                            "No file selected", <<>>)]
              /\ UNCHANGED uploads
         ELSE \E user_id \in UserIds :
              /\ uploads' = (UploadPath(user_id, file.filename) :> file.content) @@ uploads
              /\ thr' = [thr EXCEPT ![t] = Start("upload", "read", user_id, file.filename)]
    /\ UNCHANGED <<ck, ens, embedding_model, user_documents>>

\* What create_user_index finds at file_path when it opens it.
Snapshot(files, file_path) ==
    IF file_path \in DOMAIN files THEN (file_path :> files[file_path]) ELSE <<>>

\* create_user_index opens and reads the saved file (src/app.py:121-124)
UploadRead(t) ==
    /\ thr[t].op = "upload" /\ thr[t].pc = "read"
    /\ thr' = [thr EXCEPT ![t].pc = "index",
                          ![t].payload =
                              Snapshot(uploads, UploadPath(thr[t].user_id, thr[t].arg))]
    /\ UNCHANGED <<ck, ens, embedding_model, user_documents, uploads, nreq>>

\* The rest of create_user_index, on the text it has read, and the response
\* (src/app.py:126-181, 271-280)
UploadIndex(t) ==
    /\ thr[t].op = "upload" /\ thr[t].pc = "index"
    /\ LET r == thr[t]
           out == create_user_index(user_documents, r.payload, embedding_model,
                                    r.user_id, UploadPath(r.user_id, r.arg), r.arg)
       IN /\ user_documents' = out.user_documents
          /\ thr' = [thr EXCEPT ![t] =
                IF out.raised THEN Respond(r, 500, out.error, <<>>)
                ELSE Respond(r, 200, "Document processed successfully", out.metadata)]
    /\ UNCHANGED <<ck, ens, embedding_model, uploads, nreq>>

\* POST /ask up to the existence check (src/app.py:285-293)
AskCheck(t) ==
    /\ Free(t)
    /\ nreq' = nreq + 1
    /\ \E user_id \in UserIds \cup {NoUserId}, question \in {Question, NoQuestion} :
         thr' = [thr EXCEPT ![t] =
            IF user_id = NoUserId \/ question = NoQuestion
            THEN Respond(Start("ask", "done", user_id, question), 400,
                         "user_id and question required", <<>>)
            ELSE IF ~Present(user_documents, user_id)
            THEN Respond(Start("ask", "done", user_id, question), 404,
                         "Document not found. Please upload first.", <<>>)
            ELSE Start("ask", "search", user_id, question)]
    /\ UNCHANGED <<ck, ens, embedding_model, user_documents, uploads>>

\* semantic_search's own membership test (src/app.py:185-186) and, when it
\* returns [], the answer of src/app.py:300-301
AskSearchEnter(t) ==
    /\ thr[t].op = "ask" /\ thr[t].pc = "search"
    /\ thr' = [thr EXCEPT ![t] =
          IF ~Present(user_documents, thr[t].user_id)
          THEN Respond(thr[t], 200,
                       "I couldn't find relevant information in the document.", <<>>)
          ELSE [thr[t] EXCEPT !.pc = "lookup"]]
    /\ UNCHANGED <<ck, ens, embedding_model, user_documents, uploads, nreq>>

\* doc_data = user_documents[user_id], the search, and the generated answer
\* (src/app.py:188-209, 300-330); the LLM call may fail
AskSearchLookup(t) ==
    /\ thr[t].op = "ask" /\ thr[t].pc = "lookup"
    /\ IF ~Present(user_documents, thr[t].user_id)
       THEN thr' = [thr EXCEPT ![t] = Respond(thr[t], 500, "KeyError", <<>>)]
       ELSE \E results \in SemanticSearchResults(embedding_model,
                              user_documents[thr[t].user_id], thr[t].arg, AskK) :
            \E llm_ok \in BOOLEAN :
               thr' = [thr EXCEPT ![t] =
                  IF results = <<>>
                  THEN Respond(thr[t], 200,
                       "I couldn't find relevant information in the document.", results)
                  ELSE IF llm_ok THEN Respond(thr[t], 200, "answer", results)
                  ELSE Respond(thr[t], 500, "generation failed", results)]
    /\ UNCHANGED <<ck, ens, embedding_model, user_documents, uploads, nreq>>

\* POST /summary up to the existence check (src/app.py:335-342)
SummaryCheck(t) ==
    /\ Free(t)
    /\ nreq' = nreq + 1
    /\ \E user_id \in UserIds \cup {NoUserId} :
         thr' = [thr EXCEPT ![t] =
            IF user_id = NoUserId
            THEN Respond(Start("summary", "done", user_id, <<>>), 400,
                         "user_id required", <<>>)
            ELSE IF ~Present(user_documents, user_id)
            THEN Respond(Start("summary", "done", user_id, <<>>), 404,
                         "Document not found", <<>>)
            ELSE Start("summary", "lookup", user_id, <<>>)]
    /\ UNCHANGED <<ck, ens, embedding_model, user_documents, uploads>>

MaxSummaryChunks == 50

\* doc_data = user_documents[user_id] and the generated summary
\* (src/app.py:346-394); the LLM call may fail
SummaryLookup(t) ==
    /\ thr[t].op = "summary" /\ thr[t].pc = "lookup"
    /\ IF ~Present(user_documents, thr[t].user_id)
       THEN thr' = [thr EXCEPT ![t] = Respond(thr[t], 500, "KeyError", <<>>)]
       ELSE LET metadata == user_documents[thr[t].user_id].metadata
                chunks == metadata.chunks
                selected == IF Len(chunks) > MaxSummaryChunks
                            THEN SubSeq(chunks, 1, MaxSummaryChunks) ELSE chunks
            IN \E llm_ok \in BOOLEAN :
                 thr' = [thr EXCEPT ![t] =
                    IF llm_ok
                    THEN Respond(thr[t], 200, "summary",
                                 [filename |-> metadata.filename,
                                  chunks_analyzed |-> Len(selected),
                                  total_chunks |-> Len(chunks)])
                    ELSE Respond(thr[t], 500, "generation failed", <<>>)]
    /\ UNCHANGED <<ck, ens, embedding_model, user_documents, uploads, nreq>>

\* GET /documents/<user_id>: the existence check (src/app.py:433-434)
GetCheck(t) ==
    /\ Free(t)
    /\ nreq' = nreq + 1
    /\ \E user_id \in UserIds :
         thr' = [thr EXCEPT ![t] =
            IF ~Present(user_documents, user_id)
            THEN Respond(Start("get", "done", user_id, <<>>), 404,
                         "Document not found", <<>>)
            ELSE Start("get", "lookup", user_id, <<>>)]
    /\ UNCHANGED <<ck, ens, embedding_model, user_documents, uploads>>

\* metadata = user_documents[user_id]['metadata'] (src/app.py:436-437)
GetLookup(t) ==
    /\ thr[t].op = "get" /\ thr[t].pc = "lookup"
    /\ thr' = [thr EXCEPT ![t] =
          IF ~Present(user_documents, thr[t].user_id)
          THEN Respond(thr[t], 500, "KeyError", <<>>)
          ELSE Respond(thr[t], 200, "metadata", user_documents[thr[t].user_id].metadata)]
    /\ UNCHANGED <<ck, ens, embedding_model, user_documents, uploads, nreq>>

\* DELETE /documents/<user_id>: the existence check (src/app.py:442-443)
DeleteCheck(t) ==
    /\ Free(t)
    /\ nreq' = nreq + 1
    /\ \E user_id \in UserIds :
         thr' = [thr EXCEPT ![t] =
            IF ~Present(user_documents, user_id)
            THEN Respond(Start("delete", "done", user_id, <<>>), 404,
                         "Document not found", <<>>)
            ELSE Start("delete", "del", user_id, <<>>)]
    /\ UNCHANGED <<ck, ens, embedding_model, user_documents, uploads>>

\* A faulty RemoveSession: the entry stays in the table.
RemoveSessionKeeps(docs, user_id) == docs

\* del user_documents[user_id] (src/app.py:447)
RemoveSession(docs, user_id) == [docs EXCEPT ![user_id] = NoSession]

DeleteDel(t) ==
    /\ thr[t].op = "delete" /\ thr[t].pc = "del"
    /\ IF ~Present(user_documents, thr[t].user_id)
       THEN /\ thr' = [thr EXCEPT ![t] = Respond(thr[t], 500, "KeyError", <<>>)]
            /\ UNCHANGED user_documents
       ELSE /\ user_documents' = RemoveSession(user_documents, thr[t].user_id)
            /\ thr' = [thr EXCEPT ![t].pc = "cleanup"]
    /\ UNCHANGED <<ck, ens, embedding_model, uploads, nreq>>

\* The files left after the clean-up loop (src/app.py:450-452).
RemoveUploads(files, user_id) ==
    [p \in {q \in DOMAIN files : ~StartsWith(q, user_id)} |-> files[p]]

\* The clean-up loop over os.listdir and the response (src/app.py:450-456)
DeleteCleanup(t) ==
    /\ thr[t].op = "delete" /\ thr[t].pc = "cleanup"
    /\ uploads' = RemoveUploads(uploads, thr[t].user_id)
    /\ thr' = [thr EXCEPT ![t] =
          Respond(thr[t], 200, "Document deleted successfully", <<>>)]
    /\ UNCHANGED <<ck, ens, embedding_model, user_documents, nreq>>

ensOff == [pc |-> "off"]

\* The state after initialize_models (src/app.py:42-65, 35): the encoder is
\* loaded, no session exists, the upload folder is empty, no request runs.
\* The encoder is any map from texts to unit vectors; the axes are named so
\* that the question lies on the first one.
Init ==
    /\ embedding_model \in {m \in [EmbedTexts -> Vec] : m[Question] = <<1, 0>>}
    /\ user_documents = [u \in UserIds |-> NoSession]
    /\ uploads = <<>>
    /\ thr = [t \in Threads |-> Idle]
    /\ nreq = 0
    /\ ck = ckOff
    /\ ens = ensOff

Next ==
    \E t \in Threads :
        \/ UploadSave(t)
        \/ UploadRead(t)
        \/ UploadIndex(t)
        \/ AskCheck(t)
        \/ AskSearchEnter(t)
        \/ AskSearchLookup(t)
        \/ SummaryCheck(t)
        \/ SummaryLookup(t)
        \/ GetCheck(t)
        \/ GetLookup(t)
        \/ DeleteCheck(t)
        \/ DeleteDel(t)
        \/ DeleteCleanup(t)

Spec == Init /\ [][Next]_vars

\* chunk_text alone, on every bounded text, max_tokens and overlap_sentences.
InitChunk ==
    /\ ChunkInit
    /\ embedding_model = <<>>
    /\ user_documents = <<>>
    /\ uploads = <<>>
    /\ thr = <<>>
    /\ nreq = 0
    /\ ens = ensOff

NextChunk ==
    \/ ChunkLoop /\ UNCHANGED <<appVars, ens>>
    \/ ChunkReturn /\ UNCHANGED <<appVars, ens>>

SpecChunk == InitChunk /\ [][NextChunk]_vars

(***************************************************************************)
(* Properties of chunk_text, over SpecChunk.                               *)
(***************************************************************************)

ChunkDone == ck.pc = "done"

\* The sentences of the c-th returned chunk, by their recorded positions.
SentencesOfChunk(c) ==
    [j \in 1..Len(ck.L.closed[c]) |-> ck.sentences[ck.L.closed[c][j]]]

\* C7: no returned chunk has more than max_tokens whitespace tokens unless it
\* consists of exactly one sentence.
C7_ChunkWithinMaxTokens ==
    ChunkDone =>
        \A c \in 1..Len(ck.L.chunks) :
            \/ TokenCount(ck.L.chunks[c]) <= ck.max_tokens
            \/ Len(ck.L.closed[c]) = 1

\* C8: every input sentence occurs whole in some returned chunk, each chunk
\* is a run of consecutive sentences joined in source order, chunks follow
\* one another in source order, and there is a chunk iff there is a sentence.
C8_NoSentenceDroppedOrSplit ==
    ChunkDone =>
        LET n == Len(ck.sentences)
            closed == ck.L.closed
            chunks == ck.L.chunks
        IN /\ Len(chunks) = Len(closed)
           /\ \A p \in 1..n : \E c \in 1..Len(closed) : p \in Range(closed[c])
           /\ \A c \in 1..Len(closed) :
                 /\ closed[c] # <<>>
                 /\ \A j \in 1..Len(closed[c]) : closed[c][j] \in 1..n
                 /\ \A j \in 1..(Len(closed[c]) - 1) : closed[c][j + 1] = closed[c][j] + 1
                 /\ chunks[c] = JoinSentences(SentencesOfChunk(c))
           /\ \A c \in 1..(Len(closed) - 1) :
                 /\ closed[c][1] <= closed[c + 1][1]
                 /\ closed[c][Len(closed[c])] < closed[c + 1][Len(closed[c + 1])]
           /\ (n > 0 => Len(chunks) >= 1)
           /\ (n = 0 => Len(chunks) = 0)

\* A run that closed a chunk on overflow and repeated a sentence in the next.
C8_Witness ==
    /\ ChunkDone
    /\ Len(ck.sentences) >= 3
    /\ Len(ck.L.chunks) >= 2
    /\ \E c \in 1..(Len(ck.L.closed) - 1) :
          Range(ck.L.closed[c]) \cap Range(ck.L.closed[c + 1]) # {}

\* Number of leading sentences of chunk c that the overflow branch put there:
\* the overlap and the triggering sentence.
SeedLen(c) ==
    IF c = 1
    THEN (IF TokenCount(ck.sentences[1]) > ck.max_tokens THEN 1 ELSE 0)
    ELSE Min(ck.overlap_sentences, Len(ck.L.closed[c - 1])) + 1

\* C9: a chunk is closed exactly when the next sentence would overflow
\* max_tokens, and the chunk after it starts with the last
\* min(overlap_sentences, size) sentences of the closed chunk, in order,
\* followed at once by the sentence that overflowed (alone when
\* overlap_sentences = 0).
C9_OverlapSeedsNextChunk ==
    ChunkDone =>
        LET closed == ck.L.closed
        IN /\ \A c \in 1..(Len(closed) - 1) :
                LET P == closed[c]
                    Q == closed[c + 1]
                    m == Min(ck.overlap_sentences, Len(P))
                    trigger == P[Len(P)] + 1
                IN /\ Len(Q) >= m + 1
                   /\ SubSeq(Q, 1, m) = SubSeq(P, Len(P) - m + 1, Len(P))
                   /\ Q[m + 1] = trigger
                   /\ trigger \in 1..Len(ck.sentences)
                   /\ SumTokenCounts(SentencesOfChunk(c))
                        + TokenCount(ck.sentences[trigger]) > ck.max_tokens
                   /\ SubSeq(ck.L.chunks[c + 1], 1,
                             SumTokenCounts(SubSeq(SentencesOfChunk(c + 1), 1, m + 1)))
                        = JoinSentences(SubSeq(SentencesOfChunk(c), Len(P) - m + 1, Len(P)))
                            \o ck.sentences[trigger]
           /\ \A c \in 1..Len(closed) :
                \A j \in (SeedLen(c) + 1)..Len(closed[c]) :
                    SumTokenCounts(SubSeq(SentencesOfChunk(c), 1, j)) <= ck.max_tokens

\* A run where a chunk of two or more sentences overflowed with an overlap of
\* one sentence and the next chunk went on past the triggering sentence.
C9_Witness ==
    /\ ChunkDone
    /\ ck.overlap_sentences = 1
    /\ \E c \in 1..(Len(ck.L.closed) - 1) :
          /\ Len(ck.L.closed[c]) >= 2
          /\ Len(ck.L.closed[c + 1]) >= 3

(***************************************************************************)
(* Properties of the document store, over Spec.                            *)
(***************************************************************************)

\* Thread t takes a step of handler op that ends the request.
Ends(t, op) == thr'[t] # thr[t] /\ thr'[t].op = op /\ thr'[t].pc = "done"

\* Thread t accepts a request of handler op.
Begins(t, op) == ~Busy(t) /\ thr'[t] # thr[t] /\ thr'[t].op = op

\* C1: a well-formed /ask whose search finds no session for its id ends in
\* SessionNotFound (404), never in a success response with an empty result
\* list or the "no relevant information" answer.
C1_UnknownSessionNotFound ==
    [][\A t \in Threads :
          (/\ Ends(t, "ask")
           /\ thr'[t].user_id # NoUserId
           /\ thr'[t].arg # NoQuestion
           /\ ~Present(user_documents, thr'[t].user_id))
          => thr'[t].status = 404]_vars

\* A descending run of scores.
Descending(results) ==
    \A i \in 1..Len(results) : \A j \in 1..Len(results) :
        i < j => results[i].score >= results[j].score

\* C2: the query of a session holding N chunks returns min(k, N) results in
\* descending score order with pairwise distinct positions in 0..N-1.
C2_SearchReturnsMinKN ==
    [][\A t \in Threads :
          (/\ thr[t].op = "ask" /\ thr[t].pc = "lookup"
           /\ Ends(t, "ask") /\ thr'[t].status = 200
           /\ Present(user_documents, thr[t].user_id))
          => LET N == Len(user_documents[thr[t].user_id].metadata.chunks)
                 results == thr'[t].payload
             IN /\ Len(results) = Min(AskK, N)
                /\ Descending(results)
                /\ \A i \in 1..Len(results) : results[i].chunk_index \in 0..(N - 1)
                /\ \A i \in 1..Len(results) : \A j \in 1..Len(results) :
                      i # j => results[i].chunk_index # results[j].chunk_index]_vars

\* C3: per session id, ABSENT -> ACTIVE happens only by a successful ingest
\* and ACTIVE -> ABSENT only by a delete; a successful ingest leaves the id
\* ACTIVE and a delete that finds the session leaves it ABSENT; a query,
\* summary, get or delete that arrives while the id is ABSENT answers
\* SessionNotFound (404) and changes neither the table nor the upload folder.
C3_SessionLifecycle ==
    [][/\ \A X \in UserIds :
           /\ (~Present(user_documents, X) /\ Present(user_documents', X))
                => \E t \in Threads :
                      /\ thr[t].op = "upload" /\ thr[t].pc = "index"
                      /\ thr[t].user_id = X
                      /\ thr'[t].pc = "done" /\ thr'[t].status = 200
           /\ (Present(user_documents, X) /\ ~Present(user_documents', X))
                => \E t \in Threads :
                      /\ thr[t].op = "delete" /\ thr[t].pc = "del"
                      /\ thr[t].user_id = X
                      /\ thr'[t].pc = "cleanup"
       /\ \A t \in Threads :
           /\ (Ends(t, "upload") /\ thr'[t].status = 200)
                => Present(user_documents', thr[t].user_id)
           /\ (thr[t].op = "delete" /\ thr[t].pc = "del" /\ thr'[t] # thr[t]
               /\ Present(user_documents, thr[t].user_id))
                => ~Present(user_documents', thr[t].user_id)
           /\ (/\ \E op \in {"ask", "summary", "get", "delete"} : Begins(t, op)
               /\ thr'[t].user_id # NoUserId
               /\ (thr'[t].op = "ask" => thr'[t].arg # NoQuestion)
               /\ ~Present(user_documents, thr'[t].user_id))
                => /\ thr'[t].pc = "done" /\ thr'[t].status = 404
                   /\ user_documents' = user_documents
                   /\ uploads' = uploads]_vars

\* A delete that removed a session, next to a request for the same id that
\* arrived afterwards and was answered 404 while the id is still ABSENT.
C3_Witness ==
    \E t, o \in Threads :
        /\ t # o
        /\ thr[t].op = "delete" /\ thr[t].pc = "done" /\ thr[t].status = 200
        /\ thr[o].op \in {"ask", "get", "delete"} /\ thr[o].pc = "done"
        /\ thr[o].status = 404
        /\ thr[o].user_id = thr[t].user_id
        /\ ~Present(user_documents, thr[t].user_id)

\* The file thread t's upload is about to index cannot be ingested.
IngestFails(t) ==
    LET filename == thr[t].arg
        path == UploadPath(thr[t].user_id, filename)
    IN \/ filename[Len(filename)] \notin {".pdf", ".docx"}
       \/ path \notin DOMAIN thr[t].payload
       \/ SentTokenize(clean_text(ExtractText(filename, thr[t].payload[path]))) = <<>>

\* C4: an ingestion that fails (unsupported format, no chunk) reports an
\* error and leaves the session table as it was; no step of an upload other
\* than the successful store changes the table.
C4_FailedIngestKeepsTable ==
    [][\A t \in Threads :
          /\ (thr[t].op = "upload" /\ thr[t].pc = "index" /\ thr'[t] # thr[t]
              /\ IngestFails(t))
               => /\ thr'[t].pc = "done" /\ thr'[t].status = 500
                  /\ user_documents' = user_documents
          /\ (Begins(t, "upload") \/ (Ends(t, "upload") /\ thr'[t].status # 200))
               => user_documents' = user_documents]_vars

\* A failed ingest of an empty document for an id whose session is in place.
C4_Witness ==
    \E t \in Threads :
        /\ thr[t].op = "upload" /\ thr[t].pc = "done" /\ thr[t].status = 500
        /\ thr[t].body = "No text extracted from document"
        /\ Present(user_documents, thr[t].user_id)

\* C5: a successful ingest leaves under its id exactly the session of the new
\* document (its chunks, their vectors, its filename and chunk count), also
\* when the id had a session, and leaves every other id alone.
C5_ReingestReplaces ==
    [][\A t \in Threads :
          (Ends(t, "upload") /\ thr'[t].status = 200)
          => LET X == thr[t].user_id
                 filename == thr[t].arg
                 text == ExtractText(filename, thr[t].payload[UploadPath(X, filename)])
                 chunks == chunk_text(clean_text(text), max_tokens_default,
                                      overlap_sentences_default)
             IN /\ user_documents'[X].metadata.filename = filename
                /\ user_documents'[X].metadata.chunks = chunks
                /\ user_documents'[X].metadata.total_chunks = Len(chunks)
                /\ user_documents'[X].index = Encode(embedding_model, chunks)
                /\ thr'[t].payload = user_documents'[X].metadata
                /\ \A Y \in UserIds \ {X} : user_documents'[Y] = user_documents[Y]]_vars

\* Two successful ingests of different documents under one id: the second
\* replaced the session of the first.
C5_Witness ==
    \E t, o \in Threads :
        /\ t # o
        /\ thr[t].op = "upload" /\ thr[t].pc = "done" /\ thr[t].status = 200
        /\ thr[o].op = "upload" /\ thr[o].pc = "done" /\ thr[o].status = 200
        /\ thr[t].user_id = thr[o].user_id
        /\ thr[t].arg # thr[o].arg
        /\ Present(user_documents, thr[t].user_id)
        /\ user_documents[thr[t].user_id].metadata = thr[t].payload
        /\ Len(thr[o].payload.chunks) > Len(thr[t].payload.chunks)

\* C6: every ACTIVE session has index size = number of chunks = total_chunks
\* >= 1, and the vector at position i is the embedding of chunk i; the
\* metadata a get returns reports the same count.
C6_SessionSizesAgree ==
    /\ \A X \in UserIds :
          Present(user_documents, X) =>
              LET s == user_documents[X]
              IN /\ Len(s.index) = Len(s.metadata.chunks)
                 /\ s.metadata.total_chunks = Len(s.metadata.chunks)
                 /\ s.metadata.total_chunks >= 1
                 /\ \A i \in 1..Len(s.index) :
                       s.index[i] = embedding_model[s.metadata.chunks[i]]
    /\ \A t \in Threads :
          (thr[t].op = "get" /\ thr[t].pc = "done" /\ thr[t].status = 200)
              => /\ thr[t].payload.total_chunks = Len(thr[t].payload.chunks)
                 /\ thr[t].payload.total_chunks >= 1

\* A get that reported a session of two chunks.
C6_Witness ==
    \E t \in Threads :
        /\ thr[t].op = "get" /\ thr[t].pc = "done" /\ thr[t].status = 200
        /\ thr[t].payload.total_chunks = 2
        /\ Present(user_documents, thr[t].user_id)
        /\ Len(user_documents[thr[t].user_id].index) = 2

\* Thread t runs a query, summary, get or delete that has passed its
\* existence check for its id and has not answered yet.
InFlight(t) ==
    /\ thr[t].op \in {"ask", "summary", "get", "delete"}
    /\ thr[t].pc \in {"search", "lookup", "del", "cleanup"}

\* C12: while a query, summary, get or delete on id X is in flight, no step of
\* another request changes X's session; a request that has passed its
\* existence check never ends in a failed lookup of X (KeyError) nor in the
\* "no relevant information" success that semantic_search's own membership
\* test produces when X has gone.
C12_SameIdMutuallyExclusive ==
    [][\A t \in Threads :
          /\ (InFlight(t) /\ thr'[t] = thr[t])
               => user_documents'[thr[t].user_id] = user_documents[thr[t].user_id]
          /\ (InFlight(t) /\ thr'[t] # thr[t] /\ thr'[t].pc = "done")
               => /\ ~(thr'[t].status = 500 /\ thr'[t].body = "KeyError")
                  /\ (thr[t].pc = "search" => thr'[t].status # 200)]_vars

\* The upload files saved for session id Y: the paths upload_document builds
\* from Y and a file name.
SavedFor(files, Y) ==
    {p \in DOMAIN files : \E f \in UploadFiles : p = UploadPath(Y, f.filename)}

\* C14: the steps of a delete of X leave every other id Y alone, ids that X
\* is a prefix of included: Y's session entry and the upload files saved for
\* Y are unchanged; once the delete has answered, no upload file saved for X
\* remains.
C14_DeleteTouchesOnlyItsSession ==
    [][\A t \in Threads :
          (thr[t].op = "delete" /\ thr[t].pc \in {"del", "cleanup"}
           /\ thr'[t] # thr[t])
          => LET X == thr[t].user_id
             IN /\ \A Y \in UserIds \ {X} :
                      /\ user_documents'[Y] = user_documents[Y]
                      /\ \A p \in SavedFor(uploads, Y) :
                            p \in DOMAIN uploads' /\ uploads'[p] = uploads[p]
                /\ (thr'[t].pc = "done" /\ thr'[t].status = 200)
                      => SavedFor(uploads', X) = {}]_vars

(***************************************************************************)
(* The shared-corpus ensemble search of src/main.py.                       *)
(***************************************************************************)

MaxCorpus == 3

MaxK == 3

\* Vectors of norm 5: inner products are the scores in units of 1/25.
VecE == {<<5, 0>>, <<3, 4>>, <<-4, -3>>}

Query == <<"clean", "water">>

\* Row idx (0-based) of sdg_faiss_metadata.csv.
CorpusRow(idx) ==
    [chunk_id |-> 100 + idx, theme |-> "theme", file_name |-> "report.pdf",
     chunk_text |-> <<"chunk", idx>>]

\* df_chunks.iloc[idx]
Iloc(df, idx) == df[idx + 1]

\* Position of key in the dict d (a sequence of key/value pairs in insertion
\* order), or 0.
KeyPos(d, key) ==
    IF \E i \in 1..Len(d) : d[i].key = key
    THEN CHOOSE i \in 1..Len(d) : d[i].key = key
    ELSE 0

\* d[key] = val
DictPut(d, key, val) ==
    IF KeyPos(d, key) = 0 THEN Append(d, [key |-> key, val |-> val])
    ELSE [d EXCEPT ![KeyPos(d, key)].val = val]

\* The first loop of semantic_search (src/main.py:116-126).
RECURSIVE MergePrimary(_, _, _)
MergePrimary(d, df, row) ==
    IF row = <<>> THEN d
    ELSE LET e == Head(row)
             next ==
                 IF e.idx # -1 /\ e.idx < Len(df)
                 THEN DictPut(d, Iloc(df, e.idx).chunk_id,
                        [theme |-> Iloc(df, e.idx).theme,
                         file |-> Iloc(df, e.idx).file_name,
                         chunk_text |-> Iloc(df, e.idx).chunk_text,
                         score_primary |-> e.score,
                         score_enhanced |-> 0,
                         idx |-> e.idx])
                 ELSE d
         IN MergePrimary(next, df, Tail(row))

\* A faulty MergeEnhanced: a chunk the primary search did not return is
\* left out.
RECURSIVE MergeEnhancedKnownOnly(_, _, _)
MergeEnhancedKnownOnly(d, df, row) ==
    IF row = <<>> THEN d
    ELSE LET e == Head(row)
             next ==
                 IF e.idx # -1 /\ e.idx < Len(df)
                    /\ KeyPos(d, Iloc(df, e.idx).chunk_id) # 0
                 THEN [d EXCEPT ![KeyPos(d, Iloc(df, e.idx).chunk_id)].val.score_enhanced
                                    = e.score]
                 ELSE d
         IN MergeEnhancedKnownOnly(next, df, Tail(row))

\* The second loop of semantic_search (src/main.py:128-141).
RECURSIVE MergeEnhanced(_, _, _)
MergeEnhanced(d, df, row) ==
    IF row = <<>> THEN d
    ELSE LET e == Head(row)
             next ==
                 IF e.idx # -1 /\ e.idx < Len(df)
                 THEN LET chunk_id == Iloc(df, e.idx).chunk_id
                      IN IF KeyPos(d, chunk_id) # 0
                         THEN [d EXCEPT ![KeyPos(d, chunk_id)].val.score_enhanced = e.score]
                         ELSE DictPut(d, chunk_id,
                                [theme |-> Iloc(df, e.idx).theme,
                                 file |-> Iloc(df, e.idx).file_name,
                                 chunk_text |-> Iloc(df, e.idx).chunk_text,
                                 score_primary |-> 0,
                                 score_enhanced |-> e.score,
                                 idx |-> e.idx])
                 ELSE d
         IN MergeEnhanced(next, df, Tail(row))

\* score_primary * 0.7 + score_enhanced * 0.3, in tenths
CombinedScore(score_primary, score_enhanced) ==
    score_primary * 7 + score_enhanced * 3

\* combined_results.values() with combined_score set (src/main.py:143-144)
WithCombinedScore(d) ==
    [i \in 1..Len(d) |->
        [theme |-> d[i].val.theme, file |-> d[i].val.file,
         chunk_text |-> d[i].val.chunk_text,
         score_primary |-> d[i].val.score_primary,
         score_enhanced |-> d[i].val.score_enhanced,
         idx |-> d[i].val.idx,
         combined_score |-> CombinedScore(d[i].val.score_primary,
                                          d[i].val.score_enhanced)]]

\* sorted(values, key=combined_score, reverse=True): stable, so equal scores
\* keep their order.
SortedByCombinedScore(values) ==
    LET Rank(i) ==
            Cardinality({m \in 1..Len(values) :
                \/ values[m].combined_score > values[i].combined_score
                \/ (values[m].combined_score = values[i].combined_score /\ m < i)}) + 1
    IN [j \in 1..Len(values) |-> values[CHOOSE i \in 1..Len(values) : Rank(i) = j]]

\* Python's s[:k]
PySliceTo(s, k) ==
    IF k >= 0 THEN SubSeq(s, 1, Min(k, Len(s)))
    ELSE SubSeq(s, 1, IF Len(s) + k > 0 THEN Len(s) + k ELSE 0)

\* semantic_search (src/main.py:106-147) from the rows the two index.search
\* calls returned.
FuseResults(df, row_primary, row_enhanced, k) ==
    PySliceTo(SortedByCombinedScore(WithCombinedScore(
        MergeEnhanced(MergePrimary(<<>>, df, row_primary), df, row_enhanced))), k)

\* The two encoders loaded by initialize_models (src/main.py:34-35).
Providers == {"primary", "secondary"}

\* The state after initialize_models (src/main.py:29-39): the two encoders,
\* the one index read from sdg_faiss.index and the metadata table.  The file
\* holds the chunk vectors of one encoder, index_provider; scored_against
\* records, per query vector, the encoder whose chunk vectors scored it.
EnsInit ==
    \E n \in 0..MaxCorpus :
    \E index \in [1..n -> VecE], qp \in VecE, qs \in VecE :
    \E built_by \in Providers :
        ens = [pc |-> "ready",
               primary_model |-> [q \in {Query} |-> qp],
               secondary_model |-> [q \in {Query} |-> qs],
               index |-> index,
               index_provider |-> built_by,
               scored_against |-> [p \in Providers |-> "none"],
               df_chunks |-> [i \in 1..n |-> CorpusRow(i - 1)],
               k |-> 0, status |-> 0,
               row_primary |-> <<>>, row_enhanced |-> <<>>, results |-> <<>>]

\* POST /search (src/main.py:160-171) with a query and a k >= 1
Search ==
    /\ ens.pc = "ready"
    /\ \E query \in {Query}, k \in 1..MaxK :
       \E row_primary \in FaissSearch(ens.index, ens.primary_model[query], k) :
       \E row_enhanced \in FaissSearch(ens.index, ens.secondary_model[query], k) :
          ens' = [ens EXCEPT
                    !.pc = "done", !.k = k, !.status = 200,
                    !.scored_against = [p \in Providers |-> ens.index_provider],
                    !.row_primary = row_primary,
                    !.row_enhanced = row_enhanced,
                    !.results = FuseResults(ens.df_chunks, row_primary, row_enhanced, k)]

\* index.search(x, k) with k <= 0 (src/main.py:109, 112): the faiss wrapper's
\* own check of k raises; a build without that check returns empty rows
\* for k = 0 and fails to allocate its result arrays for k < 0.
FaissSearchNonPositive(index, q, k) ==
    {[raised |-> TRUE, row |-> <<>>]}
        \cup (IF k = 0 THEN {[raised |-> FALSE, row |-> <<>>]} ELSE {})

\* POST /search (src/main.py:160-171) with a query and a k <= 0: k reaches
\* semantic_search unchecked; an exception of index.search is not caught and
\* the server answers 500.
SearchBadK ==
    /\ ens.pc = "ready"
    /\ \E query \in {Query}, k \in (0 - MaxK)..0 :
       \E out \in FaissSearchNonPositive(ens.index, ens.primary_model[query], k) :
          ens' = [ens EXCEPT
                    !.pc = "done", !.k = k,
                    !.status = IF out.raised THEN 500 ELSE 200,
                    !.scored_against =
                        IF out.raised THEN @ ELSE [p \in Providers |-> ens.index_provider],
                    !.row_primary = out.row,
                    !.row_enhanced = out.row,
                    !.results =
                        IF out.raised THEN <<>>
                        ELSE FuseResults(ens.df_chunks, out.row, out.row, k)]

\* POST /search without a query (src/main.py:167-168)
SearchNoQuery ==
    /\ ens.pc = "ready"
    /\ ens' = [ens EXCEPT !.pc = "done", !.k = 0, !.status = 400, !.row_primary = <<>>,
                          !.row_enhanced = <<>>, !.results = <<>>]

InitEnsemble ==
    /\ EnsInit
    /\ ck = ckOff
    /\ embedding_model = <<>>
    /\ user_documents = <<>>
    /\ uploads = <<>>
    /\ thr = <<>>
    /\ nreq = 0

NextEnsemble ==
    \/ Search /\ UNCHANGED <<ck, appVars>>
    \/ SearchNoQuery /\ UNCHANGED <<ck, appVars>>
    \/ SearchBadK /\ UNCHANGED <<ck, appVars>>

SpecEnsemble == InitEnsemble /\ [][NextEnsemble]_vars

(***************************************************************************)
(* Properties of the ensemble search, over SpecEnsemble.                   *)
(***************************************************************************)

\* The positions a search row really found.
Found(row) == {row[i].idx : i \in {j \in 1..Len(row) : row[j].idx # -1}}

\* The score a row gives position idx, 0 when the row does not hold it.
ScoreIn(row, idx) ==
    IF idx \in Found(row)
    THEN row[CHOOSE i \in 1..Len(row) : row[i].idx = idx].score
    ELSE 0

\* C10: the ensemble query returns the best k of the union of the two top-k
\* lists, one entry per chunk, each with its primary and secondary score (0
\* for the side that did not return it) and fused = 0.7 * primary + 0.3 *
\* secondary (here in tenths), in descending fused order.
C10_FusedTopK ==
    (ens.pc = "done" /\ ens.status = 200) =>
        LET union == Found(ens.row_primary) \cup Found(ens.row_enhanced)
            results == ens.results
            Fused(idx) == 7 * ScoreIn(ens.row_primary, idx)
                            + 3 * ScoreIn(ens.row_enhanced, idx)
            returned == {results[j].idx : j \in 1..Len(results)}
        IN /\ Len(results) = Min(ens.k, Cardinality(union))
           /\ returned \subseteq union
           /\ Cardinality(returned) = Len(results)
           /\ \A j \in 1..Len(results) :
                 /\ results[j].score_primary = ScoreIn(ens.row_primary, results[j].idx)
                 /\ results[j].score_enhanced = ScoreIn(ens.row_enhanced, results[j].idx)
                 /\ results[j].combined_score = Fused(results[j].idx)
                 /\ results[j].chunk_text = Iloc(ens.df_chunks, results[j].idx).chunk_text
           /\ \A i \in 1..Len(results) : \A j \in 1..Len(results) :
                 i < j => results[i].combined_score >= results[j].combined_score
           /\ \A idx \in union \ returned : \A j \in 1..Len(results) :
                 Fused(idx) <= results[j].combined_score

\* A search whose union exceeds k and whose result holds a chunk that only
\* the secondary search returned, with fused = 0.3 * secondary.
C10_Witness ==
    /\ ens.pc = "done" /\ ens.status = 200
    /\ Cardinality(Found(ens.row_primary) \cup Found(ens.row_enhanced)) > ens.k
    /\ \E j \in 1..Len(ens.results) :
          /\ ens.results[j].idx \notin Found(ens.row_primary)
          /\ ens.results[j].idx \in Found(ens.row_enhanced)
          /\ ens.results[j].score_enhanced > 0
          /\ ens.results[j].combined_score = 3 * ens.results[j].score_enhanced

\* C11: in a served ensemble search each provider's query vector is scored
\* against the chunk vectors of that same provider: the primary query against
\* an index built by the primary encoder, the secondary query against an
\* index built by the secondary encoder.
C11_EachProviderOwnIndex ==
    (ens.pc = "done" /\ ens.status = 200 /\ Len(ens.index) >= 1) =>
        \A p \in Providers : ens.scored_against[p] = p

\* C13: a search request with k <= 0 is rejected as a caller error (400)
\* before any search result is produced: it is never answered with a result
\* list, nor with the failure of an internal call.
C13_NonPositiveKRejected ==
    (ens.pc = "done" /\ ens.k <= 0) =>
        /\ ens.status = 400
        /\ ens.results = <<>>
        /\ \A p \in Providers : ens.scored_against[p] = "none"

====
